---- MODULE Spec2Model ----
(***************************************************************************)
(* mgzip (src/mgzip/multiProcGzip.py): a gzip writer that compresses       *)
(* blocks on a thread pool and emits one indexed ('IG') member per block,  *)
(* and a reader that dispatches indexed members to a thread pool.          *)
(*                                                                         *)
(* Bytes are integers 0..255 and a file is a sequence of bytes.  The       *)
(* DEFLATE primitive (zlib) is modelled by a run-length code with an       *)
(* end-of-stream marker, CRC-32 by a chained polynomial checksum.  The     *)
(* 32-bit wrap of ISIZE is the state constant isize_mod, so that the wrap  *)
(* is reachable with payloads of a few bytes in SpecWrap.                  *)
(***************************************************************************)
EXTENDS Integers, Sequences, FiniteSets, TLC

MaxBlock == 3        \* largest blocksize tried
MaxThread == 2       \* largest worker count tried
MaxInput == 5        \* bytes the caller has to write, in all
MaxCalls == 3        \* write() calls per writer
MaxRead == 2         \* largest read(n) size tried
WideModulus == 65536 \* ISIZE wrap no payload of the model reaches
WrapModulus == 4     \* ISIZE wrap that payloads of the model reach
Clock == 1           \* what time.time() returns
MaxRewind == 1       \* resets of a reader to the start tried

VARIABLES
    \* writer configuration (MulitGzipFile.__init__)
    blocksize, thread, name, compresslevel, write_mtime, isize_mod, input,
    \* writer state
    small_buf, pool_result, fileobj, closed, pool_state,
    \* owner thread of the writer: where the call in progress stands, and how
    \* the last call ended ("ok" or the error it raised)
    pc, todo, cont, rest, wret,
    \* GzipFile.offset, what tell() reports on a writer
    offset,
    \* history: write() calls made and bytes passed to them, consecutive
    \* flush() calls, close() calls, payloads of the jobs submitted, whether
    \* a job has finished before an older one
    ncalls, fed, flushes, closes, joblog, ooo

wvars == <<blocksize, thread, name, compresslevel, write_mtime, isize_mod, input,
           small_buf, pool_result, fileobj, closed, pool_state,
           pc, todo, cont, rest, wret, offset,
           ncalls, fed, flushes, closes, joblog, ooo>>

VARIABLES
    \* reader (_MulitGzipReader): source and position, header state, slots
    src, _fp, memberidx, _is_IG_member, _header_size, r_thread, r_pool_size,
    _read_pool, _block_buff, _block_buff_pos, _block_buff_size, _is_eof,
    _new_member,
    \* the streaming decompressor of members that are not indexed, with the
    \* checksum and size of what it produced, and the position tell() reports
    _decompressor, _crc, _stream_size, _pos,
    \* owner thread of the reader, the size of the read in progress, the
    \* outcome of the last read (or what the read in progress last parsed),
    \* all bytes returned so far (since the last reset to the start, if there
    \* was one), the number of members dispatched to the pool so far, the
    \* errors raised so far, the number of resets to the start
    rpc, r_size, ret, delivered, ndispatch, raised, nrewind,
    \* MulitGzipFile.index of the stream opened for reading, and whether
    \* get_index() has run
    index, index_built

rvars == <<src, _fp, memberidx, _is_IG_member, _header_size, r_thread, r_pool_size,
           _read_pool, _block_buff, _block_buff_pos, _block_buff_size, _is_eof,
           _new_member, _decompressor, _crc, _stream_size, _pos,
           rpc, r_size, ret, delivered, ndispatch, raised, nrewind,
           index, index_built>>

vars == <<wvars, rvars>>

----------------------------------------------------------------------------
(* Sequences and little-endian words *)

Min(a, b) == IF a < b THEN a ELSE b
Max(a, b) == IF a > b THEN a ELSE b

Drop(s, n) == SubSeq(s, n + 1, Len(s))
Take(s, n) == SubSeq(s, 1, Min(n, Len(s)))

RECURSIVE Sum(_)
Sum(s) == IF s = <<>> THEN 0 ELSE Head(s) + Sum(Tail(s))

RECURSIVE Flatten(_)
Flatten(ss) == IF ss = <<>> THEN <<>> ELSE Head(ss) \o Flatten(Tail(ss))

\* struct.pack("<I", x) / gzip.write32u
write32u(x) ==
    << x % 256, (x \div 256) % 256, (x \div 65536) % 256, (x \div 16777216) % 256 >>

\* struct.unpack("<I", b)
unpack32(b) == b[1] + 256 * b[2] + 65536 * b[3] + 16777216 * b[4]

\* struct.unpack("<H", b)
unpack16(b) == b[1] + 256 * b[2]

----------------------------------------------------------------------------
(* zlib *)

\* zlib.crc32(data, value): a checksum chained over successive chunks
RECURSIVE crc32(_, _)
crc32(data, value) ==
    IF data = <<>> THEN value
    ELSE crc32(Tail(data), (value * 31 + Head(data) + 1) % 65521)

\* compressobj.compress(chunk): feed a chunk to a raw-deflate stream whose
\* pending run is `run` (<<>> or <<count, byte>>); completed runs come out.
\* Level 0 stores every byte as a run of its own.
RECURSIVE deflate(_, _, _, _)
deflate(level, run, chunk, out) ==
    IF chunk = <<>> THEN [out |-> out, run |-> run]
    ELSE LET b == Head(chunk) IN
         IF run = <<>> THEN deflate(level, <<1, b>>, Tail(chunk), out)
         ELSE IF level > 0 /\ run[2] = b
              THEN deflate(level, <<run[1] + 1, b>>, Tail(chunk), out)
              ELSE deflate(level, <<1, b>>, Tail(chunk), out \o run)

\* compressobj.flush(): the pending run and the end-of-stream marker
deflate_flush(run) == run \o <<0>>

Repeat(b, n) == [i \in 1..n |-> b]

\* decompressobj.decompress(data, max_length): max_length 0 is no limit.
\* eof is set at the end-of-stream marker, what follows it is unused_data;
\* input left when the output limit is hit is unconsumed_tail, and pend is
\* what the decompressor still holds of the run the limit cut.
RECURSIVE inflate(_, _, _)
inflate(data, max_length, out) ==
    IF data = <<>>
    THEN [out |-> out, unconsumed_tail |-> <<>>, unused_data |-> <<>>,
          eof |-> FALSE, pend |-> <<>>]
    ELSE IF data[1] = 0
    THEN [out |-> out, unconsumed_tail |-> <<>>, unused_data |-> Tail(data),
          eof |-> TRUE, pend |-> <<>>]
    ELSE IF max_length > 0 /\ Len(out) >= max_length
    THEN [out |-> out, unconsumed_tail |-> data, unused_data |-> <<>>,
          eof |-> FALSE, pend |-> <<>>]
    ELSE IF Len(data) < 2
    THEN [out |-> out, unconsumed_tail |-> <<>>, unused_data |-> <<>>,
          eof |-> FALSE, pend |-> <<>>]
    ELSE LET room == IF max_length = 0 THEN data[1]
                     ELSE Min(data[1], max_length - Len(out))
         IN  IF room < data[1]
             THEN [out |-> out \o Repeat(data[2], room),
                   unconsumed_tail |-> Drop(data, 2),
                   unused_data |-> <<>>, eof |-> FALSE,
                   pend |-> <<data[1] - room, data[2]>>]
             ELSE inflate(Drop(data, 2), max_length, out \o Repeat(data[2], room))

\* zlib.decompressobj(): not at the end of a stream, no run held back
new_decompressor == [eof |-> FALSE, pend |-> <<>>]

\* decompress(buf, size) on a decompressor that is kept between calls: what
\* it holds back comes out first
decompress_stream(dec, buf, size) ==
    IF dec.pend # <<>> /\ dec.pend[1] > size
    THEN [out |-> Repeat(dec.pend[2], size), unconsumed_tail |-> buf,
          unused_data |-> <<>>, eof |-> FALSE,
          pend |-> <<dec.pend[1] - size, dec.pend[2]>>]
    ELSE inflate(buf, size,
                 IF dec.pend = <<>> THEN <<>> ELSE Repeat(dec.pend[2], dec.pend[1]))

----------------------------------------------------------------------------
(* Member framer of the writer *)

SID == <<73, 71>>            \* b'IG'
FEXTRA == 4
FNAME == 8
FCOMMENT == 16
FHCRC == 2
DEFAULT_BUFFER_SIZE == 8192   \* io.DEFAULT_BUFFER_SIZE
GZ == <<46, 103, 122>>       \* b'.gz'

\* os.path.basename: what follows the last '/'
RECURSIVE basename(_)
basename(nm) ==
    IF \E i \in 1..Len(nm) : nm[i] = 47
    THEN basename(Drop(nm, CHOOSE i \in 1..Len(nm) : nm[i] = 47))
    ELSE nm

\* the file name a member header carries (a str of code points): none when
\* the name is not Latin-1, a trailing '.gz' stripped
fname_of(nm) ==
    LET base == basename(nm) IN
    IF \E i \in 1..Len(base) : base[i] > 255 THEN <<>>
    ELSE IF Len(base) >= 3 /\ SubSeq(base, Len(base) - 2, Len(base)) = GZ
         THEN SubSeq(base, 1, Len(base) - 3)
         ELSE base

\* int(mtime): the configured mtime, the clock when none is configured
mtime_of(configured, now) == IF configured = -1 THEN now ELSE configured

\* the worker's job: (prefix_bytes, body_bytes, rest_bytes, crc, raw size)
_compress_func(level, data, pdata) ==
    LET p == deflate(level, <<>>, pdata, <<>>)
        b == deflate(level, IF pdata # <<>> THEN p.run ELSE <<>>, data, <<>>)
        rest_bytes == deflate_flush(b.run)
    IN  IF pdata # <<>>
        THEN <<p.out, b.out, rest_bytes, crc32(data, crc32(pdata, 0)),
               Len(pdata) + Len(data)>>
        ELSE <<<<>>, b.out, rest_bytes, crc32(data, 0), Len(data)>>

\* _write_member_header that counts the NUL of a file name it does not write
_write_member_header_nul(nm, mtime, compressed_size, raw_size) ==
    LET fname == fname_of(nm)
        flags == IF fname # <<>> THEN FEXTRA + FNAME ELSE FEXTRA
        member_size == 20 + Len(fname) + 1 + compressed_size + 8
    IN  [bytes |-> <<31, 139>> \o <<8>> \o <<flags>> \o write32u(mtime)
                   \o <<2>> \o <<255>> \o <<8, 0>> \o SID \o <<4, 0>>
                   \o write32u(member_size)
                   \o (IF fname # <<>> THEN fname \o <<0>> ELSE <<>>),
         size |-> member_size]

\* bytes of the member header and the member size stored in it
_write_member_header(nm, mtime, compressed_size, raw_size) ==
    LET fname == fname_of(nm)
        flags == IF fname # <<>> THEN FEXTRA + FNAME ELSE FEXTRA
        member_size0 == 20 + Len(fname) + 1 + compressed_size + 8
        member_size == IF fname = <<>> THEN member_size0 - 1 ELSE member_size0
    IN  [bytes |-> <<31, 139>> \o <<8>> \o <<flags>> \o write32u(mtime)
                   \o <<2>> \o <<255>> \o <<8, 0>> \o SID \o <<4, 0>>
                   \o write32u(member_size)
                   \o (IF fname # <<>> THEN fname \o <<0>> ELSE <<>>),
         size |-> member_size]

\* bytes one call of _write_member lays on the sink
_write_member(nm, mtime, modulus, cdata) ==
    _write_member_header(nm, mtime,
                         Len(cdata[1]) + Len(cdata[2]) + Len(cdata[3]),
                         cdata[5]).bytes
    \o cdata[1] \o cdata[2] \o cdata[3]
    \o write32u(cdata[4])
    \o write32u(cdata[5] % modulus)

----------------------------------------------------------------------------
(* Write pipeline.  The owner thread's state is gathered in a record so    *)
(* that a call runs, in one step, up to the point where it has to wait for *)
(* a job that is not done (pool_result.pop(0).get()) or returns.           *)

Writer ==
    [small_buf |-> small_buf, pool_result |-> pool_result, fileobj |-> fileobj,
     closed |-> closed, pc |-> pc, todo |-> todo, cont |-> cont, rest |-> rest,
     wret |-> wret, offset |-> offset,
     ncalls |-> ncalls, fed |-> fed, flushes |-> flushes, closes |-> closes, joblog |-> joblog]

\* pool_result.append(pool.apply_async(_compress_func, args=(data, pdata)))
_compress_async(w, data, pdata) ==
    [w EXCEPT !.pool_result = Append(@, [data |-> data, pdata |-> pdata, st |-> "pending",
                                           view |-> FALSE]),
              !.joblog = Append(@, pdata \o data)]

\* the job's data is a memoryview of the caller's buffer (write() makes no
\* copy, and the pool is a pool of threads)
as_view(w) ==
    [w EXCEPT !.pool_result = [@ EXCEPT ![Len(@)].view = TRUE]]

\* _compress_block_async that leaves the small buffer as it was
_compress_block_async_keep(w, data) ==
    IF Len(w.small_buf) # 0
    THEN as_view(_compress_async(w, data, w.small_buf))
    ELSE as_view(_compress_async(w, data, <<>>))

_compress_block_async(w, data) ==
    IF Len(w.small_buf) # 0
    THEN as_view([_compress_async(w, data, w.small_buf) EXCEPT !.small_buf = <<>>])
    ELSE as_view(_compress_async(w, data, <<>>))

\* flushSize that ignores force
flushSize_unforced(w, force) ==
    IF Len(w.pool_result) <= thread THEN 0 ELSE Len(w.pool_result) - thread

\* flushSize that lets one more job than `thread` stay pending
flushSize_lazy(w, force) ==
    IF force THEN Len(w.pool_result)
    ELSE IF Len(w.pool_result) <= thread + 1 THEN 0
    ELSE Len(w.pool_result) - thread - 1

\* the number of jobs a call of _flush_pool(force) pops
flushSize(w, force) ==
    IF Len(w.pool_result) <= thread /\ ~force THEN 0
    ELSE IF force THEN Len(w.pool_result)
         ELSE Len(w.pool_result) - thread

\* entry of _flush_pool(force); `then` is where the caller goes on after it
_flush_pool(w, force, then) ==
    [w EXCEPT !.pc = "drain", !.todo = flushSize(w, force), !.cont = then]

\* pop_and_write that pops the newest job (pool_result.pop())
pop_and_write_newest(w) ==
    LET job == w.pool_result[Len(w.pool_result)]
        cdata == _compress_func(compresslevel, job.data, job.pdata)
    IN  [w EXCEPT !.pool_result = SubSeq(@, 1, Len(@) - 1),
                  !.fileobj = @ \o _write_member(name, mtime_of(write_mtime, Clock),
                                                 isize_mod, cdata),
                  !.todo = @ - 1]

\* one pass of the loop of _flush_pool: pop the oldest job, write its member
pop_and_write(w) ==
    LET job == Head(w.pool_result)
        cdata == _compress_func(compresslevel, job.data, job.pdata)
    IN  [w EXCEPT !.pool_result = Tail(@),
                  !.fileobj = @ \o _write_member(name, mtime_of(write_mtime, Clock),
                                                 isize_mod, cdata),
                  !.todo = @ - 1]

\* a pop of a failed job that drops the handle and the exception with it
pop_and_ignore(w) ==
    [w EXCEPT !.pool_result = Tail(@), !.todo = @ - 1]

\* pool_result.pop(0).get() on a job that failed: the handle is popped, get()
\* raises the job's exception, which leaves _flush_pool and the call that
\* drains; the finally clause of close() clears fileobj all the same
pop_and_raise(w) ==
    LET w1 == [w EXCEPT !.pool_result = Tail(@), !.todo = 0, !.rest = <<>>,
                        !.pc = "idle", !.wret = "CompressError"]
    IN  IF w.cont = "close"
        THEN [w1 EXCEPT !.closed = TRUE, !.closes = @ + 1, !.flushes = 0]
        ELSE w1

\* the owner thread from where it stands to where it waits or returns
RECURSIVE run(_)
run(w) ==
    IF w.pc # "drain" THEN w
    ELSE IF w.todo > 0
    THEN IF Head(w.pool_result).st = "done" THEN run(pop_and_write(w))
         ELSE IF Head(w.pool_result).st = "failed" THEN pop_and_raise(w)
         ELSE w
    ELSE IF w.cont = "loop"
    THEN IF w.rest # <<>>
         THEN run(_flush_pool(
                    [_compress_block_async(w, Take(w.rest, blocksize))
                        EXCEPT !.rest = Drop(w.rest, blocksize)],
                    FALSE, "loop"))
         ELSE run(_flush_pool(w, FALSE, "tail"))
    ELSE IF w.cont = "tail"
    THEN [w EXCEPT !.pc = "idle"]
    ELSE IF w.cont = "flush"
    THEN [w EXCEPT !.pc = "idle", !.flushes = @ + 1]
    ELSE [w EXCEPT !.pc = "idle", !.closed = TRUE, !.closes = @ + 1, !.flushes = 0]

\* _check_not_closed() that lets every call through
_check_not_closed_never(w) == FALSE

\* _check_not_closed(): whether it raises; closed is `fileobj is None`
_check_not_closed(w) == w.closed

\* the small-write branch of write(), shared by the variants of write below
small_write(w0, data) ==
    LET w1 == [w0 EXCEPT !.small_buf = @ \o data]
    IN  IF Len(w1.small_buf) >= blocksize
        THEN [_compress_async(w1, w1.small_buf, <<>>) EXCEPT !.small_buf = <<>>]
        ELSE w1

\* write that cuts every write of at least blocksize bytes into blocks
write_split(w, data) ==
    LET w0 == [w EXCEPT !.ncalls = @ + 1, !.fed = @ + Len(data), !.flushes = 0]
    IN  IF Len(data) = 0 THEN w0
        ELSE IF Len(data) >= blocksize
        THEN run([w0 EXCEPT !.pc = "drain", !.todo = 0, !.cont = "loop",
                            !.rest = data])
        ELSE run(_flush_pool(small_write(w0, data), FALSE, "tail"))

\* write that takes a write of less than 3 * blocksize bytes as one block
write_wide(w, data) ==
    LET w0 == [w EXCEPT !.ncalls = @ + 1, !.fed = @ + Len(data), !.flushes = 0]
    IN  IF Len(data) = 0 THEN w0
        ELSE IF Len(data) >= blocksize
        THEN IF Len(data) < 3 * blocksize
             THEN run(_flush_pool(_compress_block_async(w0, data), FALSE, "tail"))
             ELSE run([w0 EXCEPT !.pc = "drain", !.todo = 0, !.cont = "loop",
                                 !.rest = data])
        ELSE run(_flush_pool(small_write(w0, data), FALSE, "tail"))

\* write(data): the code from its entry to the first wait.  A closed stream
\* is refused by _check_not_closed(), and by the test of fileobj after it.
write(w, data) ==
    LET length == Len(data)
        w0 == [w EXCEPT !.ncalls = @ + 1, !.fed = @ + length, !.flushes = 0,
                        !.wret = "ok"]
    IN  IF _check_not_closed(w) THEN [w EXCEPT !.wret = "ClosedStream"]
        ELSE IF w.closed THEN [w EXCEPT !.wret = "ClosedStream"]
        ELSE IF length = 0 THEN w0
        ELSE IF length >= blocksize
        THEN IF length < 2 * blocksize
             THEN run(_flush_pool(_compress_block_async(w0, data), FALSE, "tail"))
             ELSE run([w0 EXCEPT !.pc = "drain", !.todo = 0, !.cont = "loop",
                                 !.rest = data])
        ELSE run(_flush_pool(small_write(w0, data), FALSE, "tail"))

\* close that submits the small buffer whether it holds bytes or not
close_always(w) ==
    IF w.closed THEN [w EXCEPT !.closes = @ + 1, !.wret = "ok"]
    ELSE run(_flush_pool([_compress_async([w EXCEPT !.wret = "ok"], w.small_buf, <<>>)
                             EXCEPT !.small_buf = <<>>],
                         TRUE, "close"))

\* close(): a closed stream returns at once
close(w) ==
    IF w.closed THEN [w EXCEPT !.closes = @ + 1, !.wret = "ok"]
    ELSE LET w0 == [w EXCEPT !.wret = "ok"]
             w1 == IF Len(w.small_buf) # 0
                   THEN [_compress_async(w0, w.small_buf, <<>>)
                            EXCEPT !.small_buf = <<>>]
                   ELSE w0
         IN  run(_flush_pool(w1, TRUE, "close"))

\* flush that writes a sync marker, as gzip.GzipFile.flush does
flush_sync(w) ==
    run(_flush_pool([w EXCEPT !.fileobj = @ \o <<0, 0, 255, 255>>], TRUE, "flush"))

\* flush that submits the small buffer first, as close() does
flush_small(w) ==
    IF _check_not_closed(w) THEN [w EXCEPT !.wret = "ClosedStream"]
    ELSE IF Len(w.small_buf) # 0
    THEN run(_flush_pool([_compress_async([w EXCEPT !.wret = "ok"], w.small_buf, <<>>)
                             EXCEPT !.small_buf = <<>>],
                         TRUE, "flush"))
    ELSE run(_flush_pool([w EXCEPT !.wret = "ok"], TRUE, "flush"))

\* flush(): a closed stream is refused, an open one drained with force
flush(w) ==
    IF _check_not_closed(w) THEN [w EXCEPT !.wret = "ClosedStream"]
    ELSE run(_flush_pool([w EXCEPT !.wret = "ok"], TRUE, "flush"))

Commit(w) ==
    /\ small_buf' = w.small_buf
    /\ pool_result' = w.pool_result
    /\ fileobj' = w.fileobj
    /\ closed' = w.closed
    /\ pc' = w.pc
    /\ todo' = w.todo
    /\ cont' = w.cont
    /\ rest' = w.rest
    /\ wret' = w.wret
    /\ offset' = w.offset
    /\ ncalls' = w.ncalls
    /\ fed' = w.fed
    /\ flushes' = w.flushes
    /\ closes' = w.closes
    /\ joblog' = w.joblog
    /\ UNCHANGED <<blocksize, thread, name, compresslevel, write_mtime,
                   isize_mod, input, pool_state, ooo, rvars>>

Write ==
    /\ pc = "idle" /\ ~closed /\ ncalls < MaxCalls
    /\ \E k \in 0..(Len(input) - fed) :
          Commit(write(Writer, SubSeq(input, fed + 1, fed + k)))

Flush ==
    /\ pc = "idle" /\ ~closed /\ flushes < 2
    /\ Commit(flush(Writer))

Close ==
    /\ pc = "idle" /\ closes < 2 /\ rpc = "none"
    /\ Commit(close(Writer))

\* the owner thread wakes up in _flush_pool: the job it waits for is done
FlushPoolGet ==
    /\ pc = "drain" /\ todo > 0
    /\ Head(pool_result).st # "pending"
    /\ Commit(run(Writer))

\* the jobs the workers of a Pool of n threads are running: the pool hands
\* jobs out in submission order, so they are the n oldest that are not done
running(jobs, n) ==
    {i \in 1..Len(jobs) :
        /\ jobs[i].st = "pending"
        /\ Cardinality({j \in 1..(i - 1) : jobs[j].st = "pending"}) < n}

\* a worker of Pool(thread) finishes its job, in any order among the running
WorkerFinish ==
    /\ \E i \in running(pool_result, thread) :
          /\ pool_result' = [pool_result EXCEPT ![i].st = "done"]
          /\ ooo' = (ooo \/ \E j \in 1..(i - 1) : pool_result[j].st = "pending")
    /\ UNCHANGED <<blocksize, thread, name, compresslevel, write_mtime, isize_mod,
                   input, small_buf, fileobj, closed, pool_state, pc, todo, cont,
                   rest, wret, offset, ncalls, fed, flushes, closes, joblog, rvars>>

\* a worker's job raises (MemoryError, say): the handle keeps the exception
WorkerFail ==
    /\ \E i \in running(pool_result, thread) :
          pool_result' = [pool_result EXCEPT ![i].st = "failed"]
    /\ UNCHANGED <<blocksize, thread, name, compresslevel, write_mtime, isize_mod,
                   input, small_buf, fileobj, closed, pool_state, pc, todo, cont,
                   rest, wret, offset, ncalls, fed, flushes, closes, joblog, ooo,
                   rvars>>

\* the byte a caller writes over its buffer ('a')
Scribble == 97

\* between two calls, the caller overwrites the first byte of a part of a
\* buffer it passed to write(); a job that has not run yet reads that buffer
CallerMutates ==
    /\ pc = "idle"
    /\ \E i \in 1..Len(pool_result) :
          /\ pool_result[i].view /\ pool_result[i].st = "pending"
          /\ pool_result[i].data[1] # Scribble
          /\ pool_result' = [pool_result EXCEPT ![i].data[1] = Scribble]
    /\ UNCHANGED <<blocksize, thread, name, compresslevel, write_mtime, isize_mod,
                   input, small_buf, fileobj, closed, pool_state, pc, todo, cont,
                   rest, wret, offset, ncalls, fed, flushes, closes, joblog, ooo,
                   rvars>>

\* write(data) on a writer that was closed
WriteOnClosed ==
    /\ pc = "idle" /\ closed
    /\ \E k \in 1..2 : Commit(write(Writer, SubSeq(input, 1, k)))

\* flush() on a writer that was closed
FlushOnClosed ==
    /\ pc = "idle" /\ closed
    /\ Commit(flush(Writer))

\* (name, compresslevel, mtime): no name, 'a.gz', '.gz', a name that is not
\* Latin-1; mtime -1 is None
Profiles == { << <<>>, 9, -1 >>, << <<97, 46, 103, 122>>, 0, 258 >>,
              << GZ, 9, 258 >>, << <<256>>, 9, -1 >> }
Inputs == { [i \in 1..MaxInput |-> 64 + i],
            [i \in 1..MaxInput |-> IF i % 3 = 1 THEN 65 ELSE 66] }

InitWriter ==
    /\ blocksize \in 1..MaxBlock
    /\ thread \in 1..MaxThread
    /\ \E p \in Profiles : /\ name = p[1]
                            /\ compresslevel = p[2]
                            /\ write_mtime = p[3]
    /\ input \in Inputs
    /\ small_buf = <<>>
    /\ pool_result = <<>>
    /\ fileobj = <<>>
    /\ closed = FALSE
    /\ pool_state = "RUN"
    /\ pc = "idle" /\ todo = 0 /\ cont = "tail" /\ rest = <<>>
    /\ wret = "ok" /\ offset = 0
    /\ ncalls = 0 /\ fed = 0 /\ flushes = 0 /\ closes = 0 /\ joblog = <<>>
    /\ ooo = FALSE

----------------------------------------------------------------------------
(* Read pipeline: _MulitGzipReader over the file the writer left.  The     *)
(* source _fp is the file and a position in it (_PaddedFile.prepend moves  *)
(* the position back).                                                     *)

Reader ==
    [src |-> src, _fp |-> _fp, memberidx |-> memberidx,
     _is_IG_member |-> _is_IG_member, _header_size |-> _header_size,
     thread |-> r_thread, _read_pool |-> _read_pool,
     _block_buff |-> _block_buff, _block_buff_pos |-> _block_buff_pos,
     _block_buff_size |-> _block_buff_size, _is_eof |-> _is_eof,
     _new_member |-> _new_member, _decompressor |-> _decompressor,
     _crc |-> _crc, _stream_size |-> _stream_size, _pos |-> _pos,
     rpc |-> rpc, size |-> r_size,
     ret |-> ret, delivered |-> delivered, ndispatch |-> ndispatch,
     raised |-> raised]

\* _fp.read(n): up to n bytes, all that is left when n < 0
fp_read(r, n) ==
    IF n < 0 THEN Drop(r.src, r._fp)
    ELSE SubSeq(r.src, r._fp + 1, Min(r._fp + n, Len(r.src)))

Err(r, what) ==
    [r EXCEPT !.ret = [kind |-> "error", val |-> what], !.rpc = "idle",
              !.raised = @ \union {what}]
Failed(r) == r.ret.kind = "error"

\* read one NUL-terminated string, counting its bytes into _header_size
RECURSIVE read_cstring(_)
read_cstring(r) ==
    LET s == fp_read(r, 1)
        r1 == [r EXCEPT !._fp = @ + Len(s), !._header_size = @ + 1]
    IN  IF s = <<>> \/ s = <<0>> THEN r1 ELSE read_cstring(r1)

has(flag, bit) == (flag \div bit) % 2 = 1

\* FEXTRA with the 'IG' subfield; r stands after XLEN and the subfield ID,
\* sub is what _read_exact(extra_len - 2) finds there
read_IG_subfield(r, extra_len, sub) ==
    IF Len(sub) < extra_len - 2
    THEN Err([r EXCEPT !._fp = Len(r.src)], "TruncatedStream")
    ELSE IF Len(sub) # 6
    THEN Err([r EXCEPT !._fp = @ + Len(sub)], "struct.error")
    ELSE [r EXCEPT !._fp = @ + 6,
                   !.memberidx = Append(@, unpack32(SubSeq(sub, 3, 6))),
                   !._is_IG_member = TRUE,
                   !._header_size = 20]

\* if flag & FEXTRA; r stands after the 10 fixed bytes, x4 is what
\* _read_exact(4) finds there: XLEN and two bytes of subfield ID
read_extra(r, flag, x4) ==
    IF ~has(flag, FEXTRA) THEN r
    ELSE IF Len(x4) < 4 THEN Err([r EXCEPT !._fp = Len(r.src)], "TruncatedStream")
    ELSE IF SubSeq(x4, 3, 4) = SID
    THEN read_IG_subfield([r EXCEPT !._fp = @ + 4], unpack16(x4),
                          fp_read([r EXCEPT !._fp = @ + 4], unpack16(x4) - 2))
    ELSE [r EXCEPT !._fp = @ + 4, !._is_IG_member = FALSE]

\* if flag & FNAME, if flag & FCOMMENT
read_string_field(r, flag, bit) ==
    IF ~Failed(r) /\ has(flag, bit) THEN read_cstring(r) ELSE r

\* if flag & FHCRC
read_hcrc(r, flag) ==
    IF Failed(r) \/ ~has(flag, FHCRC) THEN r
    ELSE IF Len(fp_read(r, 2)) < 2
    THEN Err([r EXCEPT !._fp = Len(r.src)], "TruncatedStream")
    ELSE [r EXCEPT !._fp = @ + 2, !._header_size = @ + 2]

header_read(r) ==
    IF Failed(r) THEN r ELSE [r EXCEPT !.ret = [kind |-> "header", val |-> <<>>]]

\* _read_gzip_header: ret.kind is "header" when a header was read, "nohdr"
\* at the end of the file, "error" when it raised
_read_gzip_header(r) ==
    LET magic == fp_read(r, 2)
        fixed == SubSeq(r.src, r._fp + 3, Min(r._fp + 10, Len(r.src)))
        r10 == [r EXCEPT !._fp = @ + 10]
    IN  IF magic = <<>> THEN [r EXCEPT !.ret = [kind |-> "nohdr", val |-> <<>>]]
        ELSE IF magic # <<31, 139>>
        THEN Err([r EXCEPT !._fp = @ + Len(magic)], "BadMagic")
        ELSE IF Len(fixed) < 8
        THEN Err([r EXCEPT !._fp = Len(r.src)], "TruncatedStream")
        ELSE IF fixed[1] # 8 THEN Err(r10, "UnknownMethod")
        ELSE header_read(
               read_hcrc(
                 read_string_field(
                   read_string_field(
                     read_extra(r10, fixed[2], fp_read(r10, 4)),
                     fixed[2], FNAME),
                   fixed[2], FCOMMENT),
                 fixed[2]))

\* the position after the zero padding that follows position p
RECURSIVE skip_zeros(_, _)
skip_zeros(source, p) ==
    IF p < Len(source) /\ source[p + 1] = 0 THEN skip_zeros(source, p + 1) ELSE p

\* a trailer reader that takes what is left of the file for the trailer
_read_eof_crc_short(r) ==
    LET t == fp_read(r, 8) \o [i \in 1..8 |-> 0] IN
    [r EXCEPT !._fp = skip_zeros(r.src, Min(r._fp + 8, Len(r.src))),
              !.ret = [kind |-> "trailer",
                       val |-> <<unpack32(SubSeq(t, 1, 4)), unpack32(SubSeq(t, 5, 8))>>]]

\* _read_eof_crc: the trailer's (crc32, isize), unchecked; padding consumed
_read_eof_crc(r) ==
    LET t == fp_read(r, 8) IN
    IF Len(t) < 8 THEN Err([r EXCEPT !._fp = Len(r.src)], "TruncatedStream")
    ELSE [r EXCEPT !._fp = skip_zeros(r.src, r._fp + 8),
                   !.ret = [kind |-> "trailer",
                            val |-> <<unpack32(SubSeq(t, 1, 4)), unpack32(SubSeq(t, 5, 8))>>]]

\* the worker's job: (body_bytes, rsize, crc, rcrc)
_decompress_func(data, rcrc, rsize) ==
    LET d == inflate(data, rsize, <<>>)
        crc == crc32(d.out, 0)
    IN  IF d.unconsumed_tail # <<>>
        THEN <<d.out \o d.unconsumed_tail, rsize, crc32(d.unconsumed_tail, crc), rcrc>>
        ELSE <<d.out, rsize, crc, rcrc>>

_decompress_async(r, data, rcrc, rsize) ==
    [r EXCEPT !._read_pool = Append(@, [data |-> data, rcrc |-> rcrc,
                                        rsize |-> rsize, st |-> "pending"])]

Return(r, bytes) ==
    [r EXCEPT !.ret = [kind |-> "bytes", val |-> bytes],
              !.delivered = @ \o bytes, !.rpc = "idle"]

\* raise OSError("CRC check failed {:s} != {:s}".format(rcrc, crc)): the
\* format code 's' does not take an int, so format() raises ValueError and the
\* OSError is never built
crc_check_failed == "ValueError"

\* take_result that keeps the bytes of _block_buff already returned
take_result_keep(r) ==
    LET job == Head(r._read_pool)
        block_read_rlt == _decompress_func(job.data, job.rcrc, job.rsize)
        r1 == [r EXCEPT !._read_pool = Tail(@), !.thread = @ + 1]
        buff == r._block_buff \o block_read_rlt[1]
    IN  IF Len(block_read_rlt[1]) # block_read_rlt[2] THEN Err(r1, "SizeMismatch")
        ELSE IF block_read_rlt[3] # block_read_rlt[4] THEN Err(r1, crc_check_failed)
        ELSE Return([r1 EXCEPT !._block_buff = buff,
                               !._block_buff_size = Len(buff),
                               !._block_buff_pos = Min(r.size, Len(buff))],
                    Take(buff, r.size))

\* take_result that keeps the worker slot of the job it took
take_result_hold(r) ==
    LET job == Head(r._read_pool)
        block_read_rlt == _decompress_func(job.data, job.rcrc, job.rsize)
        r1 == [r EXCEPT !._read_pool = Tail(@)]
        buff == Drop(r._block_buff, r._block_buff_pos) \o block_read_rlt[1]
    IN  IF Len(block_read_rlt[1]) # block_read_rlt[2] THEN Err(r1, "SizeMismatch")
        ELSE IF block_read_rlt[3] # block_read_rlt[4] THEN Err(r1, crc_check_failed)
        ELSE Return([r1 EXCEPT !._block_buff = buff,
                               !._block_buff_size = Len(buff),
                               !._block_buff_pos = Min(r.size, Len(buff))],
                    Take(buff, r.size))

\* take_result that gives the worker slot back once the result is accepted
take_result_late(r) ==
    LET job == Head(r._read_pool)
        block_read_rlt == _decompress_func(job.data, job.rcrc, job.rsize)
        r0 == [r EXCEPT !._read_pool = Tail(@)]
        buff == Drop(r._block_buff, r._block_buff_pos) \o block_read_rlt[1]
    IN  IF Len(block_read_rlt[1]) # block_read_rlt[2] THEN Err(r0, "SizeMismatch")
        ELSE IF block_read_rlt[3] # block_read_rlt[4] THEN Err(r0, crc_check_failed)
        ELSE Return([r0 EXCEPT !.thread = @ + 1, !._block_buff = buff,
                               !._block_buff_size = Len(buff),
                               !._block_buff_pos = Min(r.size, Len(buff))],
                    Take(buff, r.size))

\* read(): the branch that takes the result of the oldest job
take_result(r) ==
    LET job == Head(r._read_pool)
        block_read_rlt == _decompress_func(job.data, job.rcrc, job.rsize)
        r1 == [r EXCEPT !._read_pool = Tail(@), !.thread = @ + 1]
        buff == Drop(r._block_buff, r._block_buff_pos) \o block_read_rlt[1]
    IN  IF Len(block_read_rlt[1]) # block_read_rlt[2] THEN Err(r1, "SizeMismatch")
        ELSE IF block_read_rlt[3] # block_read_rlt[4] THEN Err(r1, crc_check_failed)
        ELSE Return([r1 EXCEPT !._block_buff = buff,
                               !._block_buff_size = Len(buff),
                               !._block_buff_pos = Min(r.size, Len(buff))],
                    Take(buff, r.size))

\* read(size), size > 0: the loop from its entry to a wait or a return
RECURSIVE read_loop(_)

\* read(): the synchronous decode at the end of the loop body, reached when
\* the buffer is empty, no job is pending and the end of file was not seen
sync_decode(r) ==
    LET buf == fp_read(r, DEFAULT_BUFFER_SIZE)
        d == decompress_stream(r._decompressor, buf, r.size)
        back == IF d.unconsumed_tail # <<>> THEN Len(d.unconsumed_tail)
                ELSE Len(d.unused_data)
        r1 == [r EXCEPT !._fp = @ + Len(buf) - back,
                        !._decompressor = [eof |-> d.eof, pend |-> d.pend]]
    IN  IF d.out # <<>>
        THEN Return([r1 EXCEPT !._crc = crc32(d.out, @),
                               !._stream_size = @ + Len(d.out),
                               !._pos = @ + Len(d.out)], d.out)
        ELSE IF buf = <<>> THEN Err(r1, "TruncatedStream")
        ELSE read_loop(r1)

\* read(): what follows the dispatch of new members
serve(r) ==
    IF r._block_buff_pos + r.size <= r._block_buff_size
    THEN Return([r EXCEPT !._block_buff_pos = @ + r.size],
                SubSeq(r._block_buff, r._block_buff_pos + 1, r._block_buff_pos + r.size))
    ELSE IF r._read_pool # <<>>
    THEN IF Head(r._read_pool).st = "done" THEN take_result(r)
         ELSE [r EXCEPT !.rpc = "wait"]
    ELSE IF r._block_buff_pos # r._block_buff_size
    THEN Return([r EXCEPT !._block_buff_pos = r._block_buff_size],
                Drop(r._block_buff, r._block_buff_pos))
    ELSE IF r._is_eof THEN Return(r, <<>>)
    ELSE sync_decode(r)

\* the trailer of an indexed member was read (t): submit the job and loop
dispatched(t, data) ==
    IF Failed(t) THEN [t EXCEPT !._new_member = FALSE]
    ELSE read_loop([_decompress_async(t, data, t.ret.val[1], t.ret.val[2])
                       EXCEPT !.thread = @ - 1, !._new_member = TRUE,
                              !.ndispatch = @ + 1])

\* an indexed member's header was read (h): data is the member's body
dispatch(h, data) == dispatched(_read_eof_crc([h EXCEPT !._fp = @ + Len(data)]), data)

\* what follows _init_read() and _read_gzip_header()
after_header(h) ==
    IF Failed(h) THEN h
    ELSE IF h.ret.kind = "nohdr" THEN serve([h EXCEPT !._is_eof = TRUE])
    ELSE IF h._is_IG_member
    THEN dispatch(h, fp_read(h, h.memberidx[Len(h.memberidx)] - h._header_size - 8))
    ELSE serve([h EXCEPT !._new_member = FALSE])

\* _init_read(): the checksum and size of a new member
_init_read(r) == [r EXCEPT !._crc = 0, !._stream_size = 0]

\* if self._new_member and self.thread
member_start(r) ==
    IF r._new_member /\ r.thread # 0
    THEN after_header(_read_gzip_header(_init_read(r)))
    ELSE serve(r)

\* _GzipReader._read_eof(): the trailer of a member decoded synchronously is
\* checked against the checksum and the size (modulo the ISIZE wrap) of what
\* was produced; padding consumed
_read_eof(r) ==
    LET t == fp_read(r, 8) IN
    IF Len(t) < 8 THEN Err([r EXCEPT !._fp = Len(r.src)], "TruncatedStream")
    ELSE IF unpack32(SubSeq(t, 1, 4)) # r._crc
    THEN Err([r EXCEPT !._fp = @ + 8], "CrcMismatch")
    ELSE IF unpack32(SubSeq(t, 5, 8)) # r._stream_size % isize_mod
    THEN Err([r EXCEPT !._fp = @ + 8], "SizeMismatch")
    ELSE [r EXCEPT !._fp = skip_zeros(r.src, r._fp + 8)]

\* if self._decompressor.eof: what follows _read_eof()
after_eof(e) ==
    IF Failed(e) THEN e
    ELSE member_start([e EXCEPT !._new_member = TRUE,
                                !._decompressor = new_decompressor])

read_loop(r) ==
    IF r._decompressor.eof THEN after_eof(_read_eof(r)) ELSE member_start(r)

\* read(size), size > 0
read(r, n) ==
    read_loop([r EXCEPT !.size = n, !.rpc = "run",
                        !.ret = [kind |-> "none", val |-> <<>>]])

\* write(data) on a stream opened for reading: mode is not WRITE
write_on_reader(r, data) ==
    [r EXCEPT !.ret = [kind |-> "error", val |-> "WriteOnReader"]]

RCommit(r) ==
    /\ src' = r.src
    /\ _fp' = r._fp
    /\ memberidx' = r.memberidx
    /\ _is_IG_member' = r._is_IG_member
    /\ _header_size' = r._header_size
    /\ r_thread' = r.thread
    /\ _read_pool' = r._read_pool
    /\ _block_buff' = r._block_buff
    /\ _block_buff_pos' = r._block_buff_pos
    /\ _block_buff_size' = r._block_buff_size
    /\ _is_eof' = r._is_eof
    /\ _new_member' = r._new_member
    /\ _decompressor' = r._decompressor
    /\ _crc' = r._crc
    /\ _stream_size' = r._stream_size
    /\ _pos' = r._pos
    /\ ndispatch' = r.ndispatch
    /\ raised' = r.raised
    /\ rpc' = r.rpc
    /\ r_size' = r.size
    /\ ret' = r.ret
    /\ delivered' = r.delivered
    /\ UNCHANGED <<wvars, index, index_built>>

\* MulitGzipFile(fileobj, mode 'rb', thread=t) on the file the writer closed
ReaderOpen ==
    /\ closed /\ closes = 1 /\ rpc = "none"
    /\ \E t \in 1..MaxThread :
          /\ r_pool_size' = t
          /\ nrewind' = 0
          /\ RCommit([src |-> fileobj, _fp |-> 0, memberidx |-> <<>>,
                      _is_IG_member |-> FALSE, _header_size |-> 0,
                      thread |-> t, _read_pool |-> <<>>,
                      _block_buff |-> <<>>, _block_buff_pos |-> 0,
                      _block_buff_size |-> 0, _is_eof |-> FALSE,
                      _new_member |-> TRUE,
                      _decompressor |-> new_decompressor, _crc |-> 0,
                      _stream_size |-> 0, _pos |-> 0,
                      rpc |-> "idle", size |-> 0,
                      ret |-> [kind |-> "none", val |-> <<>>],
                      delivered |-> <<>>, ndispatch |-> 0, raised |-> {}])

Read ==
    /\ rpc = "idle"
    /\ \E n \in 1..MaxRead : RCommit(read(Reader, n))
    /\ UNCHANGED <<r_pool_size, nrewind>>

\* the owner thread wakes up in read(): the job it waits for is done
ReadGet ==
    /\ rpc = "wait"
    /\ Head(_read_pool).st = "done"
    /\ RCommit(take_result(Reader))
    /\ UNCHANGED <<r_pool_size, nrewind>>

\* _rewind(), inherited from gzip._GzipReader: the file at 0, a new
\* decompressor, _pos = 0, _new_member set; the fields _MulitGzipReader adds
\* (jobs, output buffer, slots, _is_eof, _is_IG_member) are not touched
_rewind(r) ==
    [r EXCEPT !._fp = 0, !._decompressor = new_decompressor, !._pos = 0,
              !._new_member = TRUE]

\* seek(target), inherited from _compression.DecompressReader, for a target
\* not beyond the position: it rewinds when target < _pos, and has nothing to
\* skip when target = _pos
seek(r, target) ==
    IF target < r._pos THEN _rewind(r) ELSE r

\* the stream is reset to the start (rewind() ends in seek(0) on the raw
\* reader); delivered and ret start anew
Rewind ==
    /\ rpc = "idle" /\ nrewind < MaxRewind
    /\ RCommit([seek(Reader, 0) EXCEPT !.delivered = <<>>,
                                       !.ret = [kind |-> "none", val |-> <<>>]])
    /\ nrewind' = nrewind + 1
    /\ UNCHANGED r_pool_size

\* write(data) on a stream opened for reading
WriteOnReader ==
    /\ rpc = "idle"
    /\ \E k \in 1..2 : RCommit(write_on_reader(Reader, SubSeq(input, 1, k)))
    /\ UNCHANGED <<r_pool_size, nrewind>>

ReaderWorkerFinish ==
    /\ \E i \in running(_read_pool, r_pool_size) :
          _read_pool' = [_read_pool EXCEPT ![i].st = "done"]
    /\ UNCHANGED <<wvars, src, _fp, memberidx, _is_IG_member, _header_size, r_thread,
                   _block_buff, _block_buff_pos, _block_buff_size, _is_eof,
                   _new_member, _decompressor, _crc, _stream_size, _pos,
                   rpc, r_size, ret, delivered, ndispatch, raised, r_pool_size,
                   nrewind, index, index_built>>

\* index_walk that adds the size of the member at hand to the last offset
RECURSIVE index_walk_own(_, _, _)
index_walk_own(file, pos, idx) ==
    LET extra_flag == SubSeq(file, pos + 13, Min(pos + 20, Len(file)))
        msize == unpack32(SubSeq(extra_flag, 5, 8))
        member_at == IF idx = <<>> THEN 0 ELSE idx[Len(idx)][1] + msize
        isize == unpack32(SubSeq(file, pos + msize - 3, pos + msize))
    IN  IF extra_flag = <<>> THEN idx
        ELSE index_walk_own(file, pos + msize, Append(idx, <<member_at, msize, isize>>))

\* get_index(): the walk over the members of the file, from position pos
\* with the entries found so far; (member_at, member size, isize) per member.
\* The file position is put back afterwards.
RECURSIVE index_walk(_, _, _)
index_walk(file, pos, idx) ==
    LET extra_flag == SubSeq(file, pos + 13, Min(pos + 20, Len(file)))
        msize == unpack32(SubSeq(extra_flag, 5, 8))
        member_at == IF idx = <<>> THEN 0
                  ELSE idx[Len(idx)][1] + idx[Len(idx)][2]
        isize == unpack32(SubSeq(file, member_at + msize - 3, member_at + msize))
    IN  IF extra_flag = <<>> THEN idx
        ELSE IF SubSeq(extra_flag, 1, 2) # SID THEN idx   \* raise OSError
        ELSE index_walk(file, member_at + msize, Append(idx, <<member_at, msize, isize>>))

get_index(file) == index_walk(file, 0, <<>>)

GetIndex ==
    /\ rpc = "idle" /\ ~index_built
    /\ index' = get_index(src)
    /\ index_built' = TRUE
    /\ UNCHANGED <<wvars, src, _fp, memberidx, _is_IG_member, _header_size, r_thread,
                   r_pool_size, _read_pool, _block_buff, _block_buff_pos,
                   _block_buff_size, _is_eof, _new_member, _decompressor, _crc,
                   _stream_size, _pos, rpc, r_size, ret, delivered, ndispatch,
                   raised, nrewind>>

InitReader ==
    /\ src = <<>> /\ _fp = 0 /\ memberidx = <<>> /\ _is_IG_member = FALSE
    /\ _header_size = 0 /\ r_thread = 0 /\ r_pool_size = 0 /\ _read_pool = <<>>
    /\ _block_buff = <<>> /\ _block_buff_pos = 0 /\ _block_buff_size = 0
    /\ _is_eof = FALSE /\ _new_member = TRUE /\ rpc = "none" /\ r_size = 0
    /\ _decompressor = new_decompressor /\ _crc = 0 /\ _stream_size = 0 /\ _pos = 0
    /\ ret = [kind |-> "none", val |-> <<>>] /\ delivered = <<>>
    /\ ndispatch = 0 /\ raised = {} /\ nrewind = 0
    /\ index = <<>> /\ index_built = FALSE

----------------------------------------------------------------------------
(* Streams the reader is opened on that the writer above did not write:    *)
(* members of other encoders, members with a damaged trailer, files cut    *)
(* short.  A plan lists the members of a stream.                           *)

\* a member as gzip.compress writes it: no extra field, no file name
plain_member(data) ==
    LET cdata == _compress_func(9, data, <<>>) IN
    <<31, 139, 8, 0>> \o write32u(258) \o <<2, 255>>
    \o cdata[2] \o cdata[3] \o write32u(cdata[4]) \o write32u(cdata[5])

\* a member whose extra field holds another subfield than 'IG': XLEN 6,
\* subfield 'BC' with 2 bytes of data, as bgzip writes it
other_member(data) ==
    LET cdata == _compress_func(9, data, <<>>) IN
    <<31, 139, 8, FEXTRA>> \o write32u(258) \o <<2, 255>>
    \o <<6, 0>> \o <<66, 67>> \o <<2, 0>> \o <<7, 1>>
    \o cdata[2] \o cdata[3] \o write32u(cdata[4]) \o write32u(cdata[5])

\* an indexed member as _write_member lays it, its CRC-32 and ISIZE fields
\* off by dcrc and dsize
indexed_member(data, dcrc, dsize) ==
    LET cdata == _compress_func(9, data, <<>>) IN
    _write_member(<<>>, 258, WideModulus,
                  <<cdata[1], cdata[2], cdata[3], cdata[4] + dcrc, cdata[5] + dsize>>)

encode_member(m) ==
    IF m.kind = "IG" THEN indexed_member(m.data, m.dcrc, m.dsize)
    ELSE IF m.kind = "plain" THEN plain_member(m.data)
    ELSE other_member(m.data)

Encode(plan) == Flatten([i \in 1..Len(plan) |-> encode_member(plan[i])])

IG(data) == [kind |-> "IG", data |-> data, dcrc |-> 0, dsize |-> 0]
Damaged(data, dcrc, dsize) == [kind |-> "IG", data |-> data, dcrc |-> dcrc, dsize |-> dsize]
Foreign(kind, data) == [kind |-> kind, data |-> data, dcrc |-> 0, dsize |-> 0]

PayloadA == <<65, 66>>
PayloadB == <<67>>
PayloadC == <<68, 68, 69>>

\* the stream that is cut short, by 1 byte up to all but one byte of its
\* last member
CutPlan == << IG(PayloadA), IG(PayloadC) >>
MaxCut == Len(indexed_member(PayloadC, 0, 0)) - 1

Plans ==
    { << IG(PayloadA), IG(PayloadB), IG(PayloadC) >>,
      << Foreign("plain", PayloadC) >>,
      << Foreign("plain", PayloadA), IG(PayloadC) >>,
      << IG(PayloadA), Foreign("plain", PayloadC) >>,
      << Foreign("other", PayloadC) >>,
      << IG(PayloadA), Foreign("other", PayloadB) >>,
      << IG(PayloadA), Damaged(PayloadC, 1, 0), IG(PayloadB) >>,
      << IG(PayloadA), Damaged(PayloadC, 0, 1), IG(PayloadB) >>,
      << Damaged(PayloadC, 1, -1), IG(PayloadA) >>,
      << IG(PayloadA), IG(<<>>), IG(PayloadC) >> }

Sources ==
    { [plan |-> p, cut |-> 0, bytes |-> Encode(p)] : p \in Plans }
    \union
    { [plan |-> CutPlan, cut |-> k,
       bytes |-> Take(Encode(CutPlan), Len(Encode(CutPlan)) - k)] : k \in 1..MaxCut }

\* the source a stream of bytes was made from
SourceOf(bytes) == CHOOSE x \in Sources : x.bytes = bytes

\* a reader with t workers opened on a file of the given bytes; the writer
\* is an untouched stream on another file
InitReadOn(bytes) ==
    /\ blocksize = MaxBlock /\ thread = 1 /\ name = <<>> /\ compresslevel = 9
    /\ write_mtime = 258 /\ isize_mod = WideModulus
    /\ input = [i \in 1..MaxInput |-> 64 + i]
    /\ small_buf = <<>> /\ pool_result = <<>> /\ fileobj = <<>>
    /\ closed = FALSE /\ pool_state = "RUN"
    /\ pc = "idle" /\ todo = 0 /\ cont = "tail" /\ rest = <<>>
    /\ wret = "ok" /\ offset = 0
    /\ ncalls = 0 /\ fed = 0 /\ flushes = 0 /\ closes = 0 /\ joblog = <<>>
    /\ ooo = FALSE
    /\ src = bytes
    /\ \E t \in 1..MaxThread : r_thread = t /\ r_pool_size = t
    /\ _fp = 0 /\ memberidx = <<>> /\ _is_IG_member = FALSE /\ _header_size = 0
    /\ _read_pool = <<>>
    /\ _block_buff = <<>> /\ _block_buff_pos = 0 /\ _block_buff_size = 0
    /\ _is_eof = FALSE /\ _new_member = TRUE /\ rpc = "idle" /\ r_size = 0
    /\ _decompressor = new_decompressor /\ _crc = 0 /\ _stream_size = 0 /\ _pos = 0
    /\ ret = [kind |-> "none", val |-> <<>>] /\ delivered = <<>>
    /\ ndispatch = 0 /\ raised = {} /\ nrewind = 0
    /\ index = <<>> /\ index_built = FALSE

\* a reader opened on one of the sources
InitRead == \E x \in Sources : InitReadOn(x.bytes)

NextRead == Read \/ ReadGet \/ ReaderWorkerFinish

\* whole files of indexed members only, of one member up to three
LivePlans ==
    { << IG(PayloadC) >>,
      << IG(PayloadB), IG(PayloadA) >>,
      << IG(PayloadA), IG(PayloadB), IG(PayloadC) >>,
      << IG(PayloadC), IG(PayloadA), IG(PayloadC) >>,
      << IG(PayloadA), IG(<<>>), IG(PayloadC) >> }

\* the plan a file of LivePlans was made from
LivePlanOf(bytes) == CHOOSE p \in LivePlans : Encode(p) = bytes

\* a reader on one of those files
InitLive == \E p \in LivePlans : InitReadOn(Encode(p))

\* files that are read in full when they are read once from the start
RewindPlans ==
    { << IG(PayloadA), IG(PayloadB), IG(PayloadC) >>,
      << Foreign("plain", PayloadC) >>,
      << Foreign("plain", PayloadA), IG(PayloadC) >> }

\* a reader on one of those files, reset to the start at any point
InitRewind == InitRead /\ SourceOf(src).plan \in RewindPlans /\ SourceOf(src).cut = 0
NextRewind == Read \/ ReadGet \/ ReaderWorkerFinish \/ Rewind
SpecRewind == InitRewind /\ [][NextRewind]_vars

SpecRead == InitRead /\ [][NextRead]_vars

Init == InitWriter /\ InitReader /\ isize_mod = WideModulus
InitWrap == InitWriter /\ InitReader /\ isize_mod = WrapModulus

Next ==
    \/ Write \/ Flush \/ Close \/ FlushPoolGet \/ WorkerFinish
    \/ ReaderOpen \/ Read \/ ReadGet \/ ReaderWorkerFinish \/ GetIndex

Spec == Init /\ [][Next]_vars

\* a writer whose compression jobs may raise; one file name and one input
InitFail == Init /\ name = <<>> /\ input = [i \in 1..MaxInput |-> 64 + i]
NextFail == Write \/ Flush \/ Close \/ FlushPoolGet \/ WorkerFinish \/ WorkerFail
SpecFail == InitFail /\ [][NextFail]_vars

\* a writer whose caller reuses its buffers; one file name and one input
InitAlias == Init /\ name = <<>> /\ input = [i \in 1..MaxInput |-> 64 + i]
NextAlias == Write \/ Flush \/ Close \/ FlushPoolGet \/ WorkerFinish \/ CallerMutates
SpecAlias == InitAlias /\ [][NextAlias]_vars

\* the same streams, with the calls a caller may make on a closed writer and
\* on a reader; one file name and one input
InitMisuse == Init /\ name = <<>> /\ input = [i \in 1..MaxInput |-> 64 + i]
NextMisuse == Next \/ WriteOnClosed \/ FlushOnClosed \/ WriteOnReader
SpecMisuse == InitMisuse /\ [][NextMisuse]_vars
SpecWrap == InitWrap /\ [][Next]_vars

----------------------------------------------------------------------------
(* What an RFC 1952 decoder finds in a file: the members, each with its    *)
(* place, its length in bytes, the MEMBER_SIZE of its 'IG' subfield, its   *)
(* uncompressed payload and its trailer.  It does not use MEMBER_SIZE to   *)
(* find the end of a member.                                               *)

NameLen(file, at) ==
    CHOOSE k \in 1..(Len(file) - at) :
        file[at + k] = 0 /\ \A j \in 1..(k - 1) : file[at + j] # 0

RECURSIVE RefMembers(_, _)
RefMembers(file, start) ==
    IF start >= Len(file) THEN <<>>
    ELSE LET flag == file[start + 4]
             namelen == IF has(flag, FNAME) THEN NameLen(file, start + 20) ELSE 0
             body == start + 20 + namelen
             d == inflate(Drop(file, body), 0, <<>>)
             clen == Len(file) - body - Len(d.unused_data)
             end == body + clen + 8
         IN  << [start |-> start, size |-> end - start, namelen |-> namelen,
                 clen |-> clen, payload |-> d.out,
                 msize |-> unpack32(SubSeq(file, start + 17, start + 20)),
                 crc |-> unpack32(SubSeq(file, end - 7, end - 4)),
                 isize |-> unpack32(SubSeq(file, end - 3, end))] >>
             \o RefMembers(file, end)

Members(file) == RefMembers(file, 0)
Payloads(file) == [i \in 1..Len(Members(file)) |-> Members(file)[i].payload]
IsPrefix(a, b) == Len(a) <= Len(b) /\ a = SubSeq(b, 1, Len(a))
Ceil(a, b) == (a + b - 1) \div b

\* the bytes passed to write() so far, in call order
Accepted == SubSeq(input, 1, fed)
\* the last read() returned b""
AtEof == rpc = "idle" /\ ret = [kind |-> "bytes", val |-> <<>>]

----------------------------------------------------------------------------
(* Claims *)

\* C1: once close() has returned, the payloads of the members on the sink,
\* concatenated in sink order, are the bytes passed to write() in call order,
\* whatever the thread count, the blocksize and the order in which the jobs
\* finished.
WriteOrderPreserved == closed => Flatten(Payloads(fileobj)) = Accepted

\* C1 witness: a closed writer that emitted three members or more, one of
\* whose jobs finished before an older one.
WriteOrderWitness == closed /\ ooo /\ Len(Members(fileobj)) >= 3 /\ fed = Len(input)

\* C2: the bytes returned by successive read() calls are, concatenated, a
\* prefix of the members' payloads in file order, and all of them once a read
\* has returned b"".
ReadOrderPreserved ==
    rpc # "none" =>
        /\ IsPrefix(delivered, Flatten(Payloads(src)))
        /\ AtEof => delivered = Flatten(Payloads(src))

\* C2 witness: everything was delivered, and the last result was spliced onto
\* an unread byte of the member before it.
ReadOrderWitness ==
    /\ rpc = "idle" /\ r_pool_size = 2 /\ Len(Members(src)) >= 3
    /\ delivered = Flatten(Payloads(src))
    /\ LET ms == Members(src) IN
       /\ Len(ms[Len(ms) - 1].payload) >= 2
       /\ _block_buff = <<ms[Len(ms) - 1].payload[Len(ms[Len(ms) - 1].payload)]>>
                        \o ms[Len(ms)].payload

\* C3: decompressing what the engine compressed fails on no input and yields
\* the input: no read() raises, and when read() has returned b"" the bytes
\* delivered are the bytes written.
RoundTripIdentity ==
    rpc # "none" => /\ ret.kind # "error"
                    /\ AtEof => delivered = Accepted

\* C4: when flush() or close() has returned, no job is pending and the
\* members on the sink are those of all jobs submitted, in submission order.
ForcedDrainComplete ==
    (pc = "idle" /\ (flushes > 0 \/ closed)) =>
        /\ pool_result = <<>>
        /\ Payloads(fileobj) = joblog

\* C4 witness: a flush() returned on a writer that had submitted several jobs
\* and holds bytes in its small buffer.
ForcedDrainWitness ==
    pc = "idle" /\ flushes = 1 /\ ~closed /\ Len(joblog) >= 2 /\ small_buf # <<>>

\* C5: after close() the worker pool is no longer in the running state.
PoolReleasedOnClose == closed => pool_state # "RUN"

\* C6: a close() on a closed stream, and a flush() right after a flush(),
\* return at once and change neither the sink, the pending jobs, the small
\* buffer nor the jobs submitted.
CloseFlushIdempotent ==
    [][ ((closes >= 1 /\ closes' = closes + 1) \/ (flushes = 1 /\ flushes' = 2))
        => /\ pc' = "idle"
           /\ <<fileobj, pool_result, small_buf, joblog, closed, fed>>'
                = <<fileobj, pool_result, small_buf, joblog, closed, fed>> ]_vars

\* C6 witness: close() was called twice on a writer that emitted members.
CloseTwiceWitness == closes = 2 /\ closed /\ Len(Members(fileobj)) >= 2

\* C7 as claimed: one write() of L bytes and close() leave ceil(L / B)
\* members when L >= B, one member when 0 < L < B.
Blockiness ==
    (closed /\ ncalls = 1 /\ fed > 0) =>
        Len(Members(fileobj)) = IF fed >= blocksize THEN Ceil(fed, blocksize) ELSE 1

\* C7 amended: one write() of L bytes and close() leave ceil(L / B) members
\* when L >= 2B, one member when 0 < L < 2B.
BlockinessAmended ==
    (closed /\ ncalls = 1 /\ fed > 0) =>
        Len(Members(fileobj)) =
            IF fed >= 2 * blocksize THEN Ceil(fed, blocksize) ELSE 1

\* C7 witness: a single write that was cut into blocks, the last one short.
BlockinessWitness ==
    /\ closed /\ ncalls = 1 /\ fed >= 2 * blocksize /\ fed % blocksize # 0
    /\ Len(Members(fileobj)) >= 3

\* C8 as claimed: every member on the sink carries at most blocksize bytes.
BlockSizeBound ==
    \A i \in 1..Len(Members(fileobj)) :
        Len(Members(fileobj)[i].payload) <= blocksize

\* C8 amended: every member on the sink carries at most 3 * blocksize - 2
\* bytes.
BlockSizeBoundAmended ==
    \A i \in 1..Len(Members(fileobj)) :
        Len(Members(fileobj)[i].payload) <= 3 * blocksize - 2

\* C8 witness: a member of 3 * blocksize - 2 bytes, more than blocksize.
BlockSizeWitness ==
    /\ closed /\ blocksize >= 2
    /\ \E i \in 1..Len(Members(fileobj)) :
          Len(Members(fileobj)[i].payload) = 3 * blocksize - 2

\* C9: the MEMBER_SIZE stored in every member on the sink is the number of
\* bytes the member takes on the sink, 20 + (file name and its NUL, when one
\* is written) + compressed length + 8.
MemberSizeAccurate ==
    \A i \in 1..Len(Members(fileobj)) :
        LET m == Members(fileobj)[i] IN
        /\ m.msize = m.size
        /\ m.msize = 20 + m.namelen + m.clen + 8
        /\ m.namelen = IF fname_of(name) # <<>> THEN Len(fname_of(name)) + 1 ELSE 0

\* C9 witness: members of different compressed lengths written without a
\* file name, the name being empty once '.gz' is stripped.
MemberSizeWitness ==
    /\ closed /\ name = GZ /\ Len(Members(fileobj)) >= 2
    /\ Members(fileobj)[1].clen # Members(fileobj)[2].clen

\* C10: the index walk over a file of the engine returns one entry per
\* member, the offsets starting at 0 and each the last offset plus the last
\* member size, the last offset plus member size the size of the file, and
\* isize values whose sum is the number of bytes written, modulo the ISIZE
\* wrap.
IndexConsistent ==
    index_built =>
        /\ Len(index) = Len(Members(src))
        /\ \A i \in 1..Len(index) :
              /\ index[i][1] = IF i = 1 THEN 0 ELSE index[i - 1][1] + index[i - 1][2]
              /\ index[i][1] = Members(src)[i].start
              /\ index[i][3] = Len(Members(src)[i].payload) % isize_mod
        /\ index # <<>> => index[Len(index)][1] + index[Len(index)][2] = Len(src)
        /\ Sum([i \in 1..Len(index) |-> index[i][3]]) % isize_mod = fed % isize_mod

\* C10 witness: an index of several members of different sizes, one of them
\* with a payload that wraps ISIZE.
IndexWitness ==
    /\ index_built /\ Len(index) >= 2 /\ index[1][2] # index[2][2]
    /\ \E i \in 1..Len(index) : Len(Members(src)[i].payload) >= isize_mod

----------------------------------------------------------------------------
(* Streams of the read-side claims *)

\* the payloads of the members of a plan, joined
PlanPayload(plan) == Flatten([i \in 1..Len(plan) |-> plan[i].data])
\* a source that is whole and whose trailers are right
Sound(x) == x.cut = 0 /\ \A i \in 1..Len(x.plan) : x.plan[i].dcrc = 0 /\ x.plan[i].dsize = 0
\* the last read() returned bytes
Returned == rpc = "idle" /\ ret.kind = "bytes"

\* C11: a member is dispatched to a worker on the strength of its own header
\* only, so no more members are dispatched than 'IG' subfields were read; and
\* a stream of sound members with a payload, indexed or not, is read without
\* an error and, once read() has returned b"", in full.
PerMemberFallback ==
    /\ ndispatch <= Len(memberidx)
    /\ (Sound(SourceOf(src)) /\ \A i \in 1..Len(SourceOf(src).plan) :
                                   SourceOf(src).plan[i].data # <<>>) =>
          /\ raised = {}
          /\ AtEof => delivered = PlanPayload(SourceOf(src).plan)

\* C12: when read() drains the oldest job, it fails with SizeMismatch if the
\* member inflates to another length than its trailer declares, otherwise with
\* CrcMismatch if the checksum of what it inflates to differs from the
\* trailer's, and in either failure nothing is added to the output buffer nor
\* returned; otherwise it returns bytes.
ValidationOfDispatched ==
    [][ Len(_read_pool') = Len(_read_pool) - 1 =>
          LET job == Head(_read_pool)
              body == inflate(job.data, 0, <<>>).out
          IN  IF Len(body) # job.rsize
              THEN /\ ret' = [kind |-> "error", val |-> "SizeMismatch"]
                   /\ UNCHANGED <<_block_buff, delivered>>
              ELSE IF crc32(body, 0) # job.rcrc
              THEN /\ ret' = [kind |-> "error", val |-> "CrcMismatch"]
                   /\ UNCHANGED <<_block_buff, delivered>>
              ELSE ret'.kind = "bytes" ]_vars

ReadResultBounds ==
    Returned =>
        /\ Len(ret.val) <= r_size
        /\ ret.val = <<>> =>
              /\ _fp = Len(src) /\ _read_pool = <<>>
              /\ _block_buff_pos = _block_buff_size
              /\ Sound(SourceOf(src)) => delivered = PlanPayload(SourceOf(src).plan)

\* C15: a member whose payload is as long as the ISIZE wrap or longer is
\* accepted by the reader: no read() fails with SizeMismatch, and it is
\* delivered in full.
WrappedSizeAccepted ==
    rpc # "none" =>
        /\ "SizeMismatch" \notin raised
        /\ AtEof => delivered = Flatten(Payloads(src))

\* C16: write() or flush() on a closed stream fails with ClosedStream, and
\* write() on a stream opened for reading fails with WriteOnReader; in each
\* case no job is submitted, and the small buffer, the pending jobs, the sink
\* and every other field of the stream are left as they were.
MisuseRejected ==
    [][ /\ (WriteOnClosed \/ FlushOnClosed) =>
              /\ wret' = "ClosedStream"
              /\ UNCHANGED <<small_buf, pool_result, fileobj, joblog, fed, closed,
                             pool_state, pc, offset, rvars>>
        /\ WriteOnReader =>
              /\ ret' = [kind |-> "error", val |-> "WriteOnReader"]
              /\ UNCHANGED <<wvars, src, _fp, memberidx, _read_pool, _block_buff,
                             _block_buff_pos, _block_buff_size, delivered,
                             ndispatch, r_thread>> ]_vars

\* C16 witness: a writer that wrote two members or more and was closed has
\* refused a call, and the reader opened on its file has refused a write.
MisuseWitness ==
    /\ closed /\ wret = "ClosedStream" /\ Len(Members(fileobj)) >= 2
    /\ ret = [kind |-> "error", val |-> "WriteOnReader"]
    /\ delivered # <<>>

\* C17: the position tell() reports is the number of bytes write() has
\* accepted so far on a writer, and the number of bytes read() has returned so
\* far on a reader.
PositionTracked ==
    /\ offset = fed
    /\ rpc # "none" => _pos = Len(delivered)

\* C18: a writer never has more than thread + 1 jobs pending, and no more than
\* thread when a call has returned on an open stream; a drain without force
\* that waits for a job has as many jobs left to pop as exceed thread; and the
\* members on the sink are those of the oldest jobs, all but the pending ones.
WriterBackpressure ==
    /\ Len(pool_result) <= thread + 1
    /\ (pc = "idle" /\ ~closed) => Len(pool_result) <= thread
    /\ (pc = "drain" /\ cont \in {"loop", "tail"} /\ todo > 0) =>
          todo = Len(pool_result) - thread
    /\ Payloads(fileobj) = SubSeq(joblog, 1, Len(joblog) - Len(pool_result))

\* C18 witness: a write() of several blocks waits in a drain without force
\* with thread + 1 jobs pending, after members were emitted.
BackpressureWitness ==
    /\ pc = "drain" /\ cont = "loop" /\ thread = 2
    /\ Len(pool_result) = thread + 1 /\ todo = 1
    /\ Len(Members(fileobj)) >= 1

JobErrorPropagation ==
    [][ LET submitted == Len(joblog') - Len(joblog)
            popped == Len(pool_result) + submitted - Len(pool_result')
            before == Len(Payloads(fileobj))
            emitted == Len(Payloads(fileobj')) - before
        IN  /\ IsPrefix(fileobj, fileobj')
            /\ emitted >= 0 /\ popped >= emitted /\ popped <= emitted + 1
            /\ popped <= Len(pool_result)
            /\ pool_result' = SubSeq(pool_result, popped + 1, Len(pool_result))
                                \o SubSeq(pool_result', Len(pool_result) - popped + 1,
                                          Len(pool_result'))
               \/ (popped = 0 /\ submitted = 0)
            /\ \A i \in 1..emitted :
                  /\ pool_result[i].st = "done"
                  /\ Payloads(fileobj')[before + i]
                        = pool_result[i].pdata \o pool_result[i].data
            /\ popped = emitted + 1 =>
                  /\ pool_result[popped].st = "failed"
                  /\ wret' = "CompressError" /\ pc' = "idle"
            /\ (wret' = "CompressError" /\ popped = emitted) =>
                  /\ wret = "CompressError"
                  /\ popped = 0 /\ submitted = 0 ]_vars

\* C20 witness: a call on an open writer has raised CompressError after a
\* member was emitted, no member stands for the failed job, and a job
\* submitted after the failed one is still pending.
JobErrorWitness ==
    /\ wret = "CompressError" /\ ~closed /\ pc = "idle"
    /\ Len(Members(fileobj)) >= 1 /\ pool_result # <<>>
    /\ Len(joblog) = Len(Members(fileobj)) + Len(pool_result) + 1

\* C21: a job compresses the bytes the caller's buffer held when write() was
\* called: every pending job holds, and every member on the sink carries, the
\* payload that was recorded when the job was submitted.
PayloadSnapshot ==
    LET done == Len(joblog) - Len(pool_result) IN
    /\ Payloads(fileobj) = SubSeq(joblog, 1, done)
    /\ \A i \in 1..Len(pool_result) :
          pool_result[i].pdata \o pool_result[i].data = joblog[done + i]

\* every member on the sink is the member of one job, oldest first, and its
\* trailer holds the checksum and the length of all it inflates to
MembersCarryJobs ==
    /\ Payloads(fileobj) = SubSeq(joblog, 1, Len(joblog) - Len(pool_result))
    /\ \A i \in 1..Len(Members(fileobj)) :
          LET m == Members(fileobj)[i] IN
          /\ m.crc = crc32(m.payload, 0)
          /\ m.isize = Len(m.payload) % isize_mod

\* C22: a write() of at least blocksize bytes that finds the small buffer
\* filled submits as its first job the buffer followed by the first block,
\* and the later blocks of the data alone, whether it submits them at once or
\* after a wait; the small buffer is empty afterwards; and each job gives one
\* member, checksum and length taken over the whole of it.
PrefixRule ==
    /\ []MembersCarryJobs
    /\ [][ LET k == fed' - fed
               data == SubSeq(input, fed + 1, fed')
               was == Len(joblog)
               nnew == Len(joblog') - was
               block(d, j) == SubSeq(d, (j - 1) * blocksize + 1,
                                     Min(j * blocksize, Len(d)))
           IN  /\ (pc = "idle" /\ k >= blocksize /\ small_buf # <<>>) =>
                     /\ nnew >= 1
                     /\ small_buf' = <<>>
                     /\ joblog'[was + 1] = small_buf \o (IF k < 2 * blocksize THEN data
                                                         ELSE block(data, 1))
                     /\ \A j \in 2..nnew : joblog'[was + j] = block(data, j)
                     /\ LET job == pool_result'[Len(pool_result') - nnew + 1]
                        IN  job.pdata = small_buf /\ job.pdata \o job.data = joblog'[was + 1]
                     /\ \A j \in 2..nnew :
                           pool_result'[Len(pool_result') - nnew + j].pdata = <<>>
                     /\ (pc' = "drain" /\ cont' = "loop") =>
                           rest' = Drop(data, nnew * blocksize)
               /\ (pc = "drain" /\ cont = "loop") =>
                     /\ small_buf = <<>> /\ small_buf' = <<>>
                     /\ \A j \in 1..nnew :
                           /\ joblog'[was + j] = block(rest, j)
                           /\ pool_result'[Len(pool_result') - nnew + j].pdata = <<>> ]_vars

\* C22 witness: a write of two blocks found one byte in the small buffer; its
\* first job carries that byte as prefix, its second job none.
PrefixWitness ==
    /\ ncalls = 2 /\ small_buf = <<>> /\ Len(pool_result) = 2
    /\ pool_result[1].pdata # <<>> /\ pool_result[1].view
    /\ pool_result[2].pdata = <<>> /\ pool_result[2].view

\* a member header with an extra field, and no other optional field, whose
\* first subfield ID is not 'IG', stands at position p of the file
OtherHeaderAt(file, p) ==
    /\ Len(file) >= p + 14
    /\ SubSeq(file, p + 1, p + 3) = <<31, 139, 8>>
    /\ file[p + 4] = FEXTRA
    /\ SubSeq(file, p + 13, p + 14) # SID

\* C23: when the reader is about to parse a header whose extra field does not
\* start with 'IG', the parse ends 2 + XLEN bytes after the 10 fixed bytes,
\* at the first byte of the body, with the member marked as not indexed; and a
\* file that holds such a member is read without an error, every byte that
\* is delivered being a byte of its payload.
ExtraFieldConsumed ==
    /\ (rpc = "idle" /\ _new_member /\ r_thread > 0 /\ ~_decompressor.eof
           /\ OtherHeaderAt(src, _fp)) =>
          LET h == _read_gzip_header([Reader EXCEPT !.ret = [kind |-> "none",
                                                             val |-> <<>>]])
              xlen == unpack16(SubSeq(src, _fp + 11, _fp + 12))
          IN  /\ h.ret.kind = "header"
              /\ ~h._is_IG_member
              /\ h._fp = _fp + 10 + 2 + xlen
    /\ (Sound(SourceOf(src))
           /\ \E i \in 1..Len(SourceOf(src).plan) : SourceOf(src).plan[i].kind = "other") =>
          /\ raised = {}
          /\ IsPrefix(delivered, PlanPayload(SourceOf(src).plan))

\* C24: after a reader was reset to the start, whatever it held then, no
\* read fails, the bytes delivered since are the beginning of the stream's
\* payload, and all of it once a read() has returned b"".
RewindRestarts ==
    nrewind > 0 =>
        /\ raised = {}
        /\ IsPrefix(delivered, PlanPayload(SourceOf(src).plan))
        /\ AtEof => delivered = PlanPayload(SourceOf(src).plan)

\* C25: no job has an empty payload and no member on the sink inflates to
\* nothing; a writer closed without a byte written has an empty sink; and a
\* write() of no bytes leaves the small buffer, the pending jobs, the jobs
\* submitted and the sink as they were.
NoEmptyJob ==
    /\ [](/\ \A i \in 1..Len(joblog) : joblog[i] # <<>>
          /\ \A i \in 1..Len(pool_result) :
                pool_result[i].pdata \o pool_result[i].data # <<>>
          /\ \A i \in 1..Len(Members(fileobj)) : Members(fileobj)[i].payload # <<>>
          /\ (closed /\ fed = 0) => fileobj = <<>>)
    /\ [][ (pc = "idle" /\ ncalls' = ncalls + 1 /\ fed' = fed) =>
              UNCHANGED <<small_buf, pool_result, joblog, fileobj, closed, pc>> ]_vars

\* C25 witness: a writer that was given empty writes only, and closed.
NoEmptyJobWitness ==
    /\ closed /\ ncalls >= 2 /\ fed = 0 /\ fileobj = <<>> /\ joblog = <<>>

\* C26: flush() leaves the small buffer as it is and submits no job, so the
\* bytes in the small buffer are accepted bytes that are in no job and not on
\* the sink; the small buffer always holds fewer than blocksize bytes; its
\* bytes leave it only as the prefix of a job, submitted by close() or by a
\* write that brings the buffered bytes to blocksize or more.
FlushLeavesSmallBuf ==
    /\ [](/\ Len(small_buf) < blocksize
          /\ IsPrefix(Flatten(joblog) \o small_buf, Accepted)
          /\ pc = "idle" => Flatten(joblog) \o small_buf = Accepted
          /\ Payloads(fileobj) = SubSeq(joblog, 1, Len(joblog) - Len(pool_result)))
    /\ [][ LET flushing == \/ pc = "drain" /\ cont = "flush"
                           \/ /\ pc = "idle"
                              /\ \/ flushes' = flushes + 1
                                 \/ pc' = "drain" /\ cont' = "flush"
               closing == pc = "idle" /\ (closes' = closes + 1 \/ cont' = "close")
               writing == pc = "idle" /\ ncalls' = ncalls + 1
           IN  /\ flushing => (small_buf' = small_buf /\ joblog' = joblog)
               /\ small_buf' # small_buf => (writing \/ closing)
               /\ (small_buf # <<>> /\ ~IsPrefix(small_buf, small_buf')) =>
                     /\ Len(joblog') > Len(joblog)
                     /\ IsPrefix(small_buf, joblog'[Len(joblog) + 1])
                     /\ \/ closing /\ small_buf' = <<>>
                        \/ writing /\ Len(small_buf) + (fed' - fed) >= blocksize ]_vars

\* C26 witness: flush() has returned, a member is on the sink, and the bytes
\* of the small buffer are accepted but not on the sink.
FlushWitness ==
    /\ pc = "idle" /\ flushes >= 1 /\ ~closed
    /\ small_buf # <<>> /\ pool_result = <<>> /\ fileobj # <<>>
    /\ Flatten(Payloads(fileobj)) \o small_buf = Accepted

\* the reader has returned every byte of the file and then b"", the file is
\* read to its end and no job is pending
Drained ==
    /\ AtEof /\ raised = {}
    /\ delivered = PlanPayload(LivePlanOf(src))
    /\ _fp = Len(src) /\ _read_pool = <<>>

\* the reader on a whole file of indexed members: every submitted job
\* completes, the owner thread goes on once the job it waits for is done, and
\* the caller goes on calling read() until the reader is drained
SpecLive ==
    /\ InitLive /\ [][NextRead]_vars
    /\ WF_vars(ReaderWorkerFinish) /\ WF_vars(ReadGet)
    /\ ([]<><<Read>>_vars \/ []<>Drained)

\* C27: on a whole file of indexed members read with T >= 1 workers, whose
\* jobs all complete, every read() that waits returns, repeated reads deliver
\* every byte of the file and from then on return b"", and in no state are
\* members left in the file while no job is pending and no slot is free.
ReaderProgress ==
    /\ [](~(_fp < Len(src) /\ _read_pool = <<>> /\ r_thread = 0))
    /\ [](rpc = "wait" => _read_pool # <<>>)
    /\ (rpc = "wait") ~> (rpc = "idle")
    /\ <>[]Drained

\* C27 witness: a reader of one worker has returned every byte of a file of
\* three members, one job at a time, and then b"".
ReaderProgressWitness ==
    /\ Drained /\ r_pool_size = 1 /\ ndispatch = 3 /\ Len(delivered) = 6

====
